---- MODULE Spec2Model ----
(***************************************************************************)
(* Time Capsule Web: the capsule store (src/src/backend/routes.py) and the *)
(* visibility rules of a capsule (src/src/backend/database.py).            *)
(*                                                                         *)
(* Conventions of the model                                                *)
(*  - an instant is a whole number of seconds; the wall clock is `now`;    *)
(*  - a text is a tuple of one-character strings, "" is << >>;             *)
(*  - an optional value (a JSON key that may be absent, Python's None) is  *)
(*    << >> when absent and <<v>> when present;                            *)
(*  - fragment_scale is kept in tenths (0.5 is 5, 1.5 is 15).              *)
(*  - every handler is one action.  The clock reads a handler makes are    *)
(*    numbered in program order and answered by a clock schedule: the      *)
(*    clock stands at `now` and may advance by one second before any one   *)
(*    of the reads (longer waits are Tick steps between requests);         *)
(*  - identifiers are opaque: the n-th identifier generate_uuid returns is *)
(*    named n;                                                             *)
(*  - a date text that parses names a UTC instant (offsets other than      *)
(*    +00:00 are not modelled), so a stored date is the instant parsed;    *)
(*  - the database is SQLite (app.py 33-35): LIMIT with a negative count   *)
(*    sets no limit and a negative OFFSET skips nothing;                   *)
(*  - requests are served one at a time: a handler runs when no response  *)
(*    is pending, leaves the request and its response in resp, and Deliver *)
(*    hands the response to the client.  Only SpecStats serves get_stats   *)
(*    query by query, between the commits of other clients.                *)
(***************************************************************************)
EXTENDS Integers, Sequences, FiniteSets, TLC

VARIABLES
  store,    \* the capsules table: identifier -> row
  used,     \* the identifiers generate_uuid has returned
  deleted,  \* history: the identifiers of the rows deleted so far
  now,      \* the wall clock
  resp,     \* the request just served and its response, until it is delivered
  pre       \* history: store, now and deleted as that request found them

vars == <<store, used, deleted, now, resp, pre>>

\* Last instant of the modelled clock.
MaxTime == 2
\* Number of identifiers generate_uuid can hand out.
MaxCapsules == 2

Ids == 1..MaxCapsules
Instants == 0..MaxTime

----------------------------------------------------------------------------
\* Texts

Lower(ch) ==
  CASE ch = "A" -> "a" [] ch = "B" -> "b" [] ch = "X" -> "x"
    [] ch = "Y" -> "y" [] ch = "T" -> "t" [] OTHER -> ch

LowerText(s) == [i \in 1..Len(s) |-> Lower(s[i])]

\* str.__contains__ / SQL LIKE '%sub%' on texts without wildcard characters
Contains(s, sub) ==
  \E i \in 0..(Len(s) - Len(sub)) : SubSeq(s, i + 1, i + Len(sub)) = sub

\* column.ilike('%pat%')
ilike(s, pat) == Contains(LowerText(s), LowerText(pat))

RECURSIVE Join(_)
\* ','.join(list)
Join(list) ==
  IF list = << >> THEN << >>
  ELSE IF Len(list) = 1 THEN list[1]
  ELSE list[1] \o <<",">> \o Join(Tail(list))

RECURSIVE Split(_)
\* str.split(','): always at least one piece
Split(s) ==
  IF \A i \in 1..Len(s) : s[i] # ","
  THEN <<s>>
  ELSE LET k == CHOOSE i \in 1..Len(s) :
                  s[i] = "," /\ \A j \in 1..(i - 1) : s[j] # ","
       IN <<SubSeq(s, 1, k - 1)>> \o Split(SubSeq(s, k + 1, Len(s)))

\* ord() of the characters of the model
ord(ch) ==
  CASE ch = " " -> 32 [] ch = "," -> 44
    [] ch = "A" -> 65 [] ch = "B" -> 66 [] ch = "T" -> 84
    [] ch = "X" -> 88 [] ch = "Y" -> 89
    [] ch = "a" -> 97 [] ch = "b" -> 98 [] ch = "t" -> 116
    [] ch = "x" -> 120 [] ch = "y" -> 121

\* s < t for two str: the first difference decides, a proper prefix is smaller
StrLess(s, t) ==
  \E k \in 1..(Len(t)) :
    /\ k <= Len(s) + 1
    /\ \A j \in 1..(k - 1) : s[j] = t[j]
    /\ k = Len(s) + 1 \/ ord(s[k]) < ord(t[k])

RECURSIVE sorted(_)
\* sorted(list(set)) for a set of str
sorted(set) ==
  IF set = {} THEN << >>
  ELSE LET least == CHOOSE x \in set : \A y \in set \ {x} : StrLess(x, y)
       IN <<least>> \o sorted(set \ {least})

RECURSIVE lstrip(_)
\* str.lstrip()
lstrip(s) ==
  IF s = << >> THEN s
  ELSE IF Head(s) = " " THEN lstrip(Tail(s))
  ELSE s

RECURSIVE strip(_)
\* str.strip()
strip(s) ==
  IF s = << >> THEN s
  ELSE IF Head(s) = " " THEN strip(Tail(s))
  ELSE IF s[Len(s)] = " " THEN strip(SubSeq(s, 1, Len(s) - 1))
  ELSE s

----------------------------------------------------------------------------
\* Capsule (database.py)

\* datetime.isoformat(): a text made from the instant, not the instant
isoformat(t) == [iso |-> t]

\* is_unlocked comparing the clock with the wrong column
is_unlocked_created_at(c, t) == t >= c.created_at

\* is_unlocked with a strict comparison
is_unlocked_strict(c, t) == t > c.unlock_date

\* Capsule.is_unlocked with the clock read answering t
is_unlocked(c, t) == t >= c.unlock_date

\* Capsule.time_until_unlock: t4 answers the read inside is_unlocked (line 106),
\* t5 the read of line 108.  None is << >>, a timedelta of d seconds is <<d>>.
time_until_unlock(c, t4, t5) ==
  IF is_unlocked(c, t4) THEN << >> ELSE <<c.unlock_date - t5>>

\* truth value of `time_remaining`: None and timedelta(0) are false
Truthy(td) == td # << >> /\ td[1] # 0

SecondsPerDay == 86400
SecondsPerHour == 3600
SecondsPerMinute == 60

\* timedelta.days, timedelta.seconds // 3600, (timedelta.seconds % 3600) // 60;
\* a timedelta is normalised so that 0 <= seconds < 86400 (days may be negative)
TimeRemaining(d) ==
  LET seconds == d % SecondsPerDay
  IN [days |-> d \div SecondsPerDay,
      hours |-> seconds \div SecondsPerHour,
      minutes |-> (seconds % SecondsPerHour) \div SecondsPerMinute]

\* The content branch of to_dict (line 140): `include_content and is_unlocked()`
ContentShown(c, include_content, t2) == include_content /\ is_unlocked(c, t2)

\* Gated as two independent tests on the flag computed for the is_unlocked key
GatedIndependent(c, include_content, t) ==
  (IF ContentShown(c, include_content, t[2]) THEN [content |-> c.content] ELSE << >>)
    @@ (IF ~is_unlocked(c, t[1])
        THEN [time_remaining |-> TimeRemaining(c.unlock_date - t[5])]
        ELSE << >>)

\* The keys lines 140-149 of to_dict add.  t is the tuple of the five clock
\* reads to_dict can make: t[1] line 133, t[2] line 140, t[3] line 142,
\* t[4] line 106, t[5] line 108.
Gated(c, include_content, t) ==
  LET time_remaining == time_until_unlock(c, t[4], t[5])
  IN IF ContentShown(c, include_content, t[2])
     THEN [content |-> c.content]
     ELSE IF ~is_unlocked(c, t[3])
     THEN IF Truthy(time_remaining)
          THEN [time_remaining |-> TimeRemaining(time_remaining[1])]
          ELSE << >>
     ELSE << >>

\* Capsule.to_dict
to_dict(c, include_content, t) ==
  LET result ==
        [id |-> c.id,
         title |-> c.title,
         content_type |-> c.content_type,
         creator_name |-> c.creator_name,
         tags |-> IF c.tags # << >> THEN Split(c.tags) ELSE << >>,
         created_at |-> isoformat(c.created_at),
         unlock_date |-> isoformat(c.unlock_date),
         is_public |-> c.is_public,
         is_unlocked |-> is_unlocked(c, t[1]),
         fragment_x |-> c.fragment_x,
         fragment_y |-> c.fragment_y,
         fragment_rotation |-> c.fragment_rotation,
         fragment_scale |-> c.fragment_scale]
  IN result @@ Gated(c, include_content, t)

----------------------------------------------------------------------------
\* The clock during one handler

\* The schedules of a handler that starts at the instant t0 and makes at most K
\* clock reads: the reads from number `at` on return `to`, the earlier ones t0
SchedulesFrom(t0, K) ==
  {[at |-> 1, from |-> t0, to |-> t0]}
    \cup {[at |-> k, from |-> t0, to |-> t0 + 1] : k \in {j \in 1..K : t0 < MaxTime}}

Schedules(K) == SchedulesFrom(now, K)

\* What the k-th clock read of the handler returns
Read(s, k) == IF k >= s.at THEN s.to ELSE s.from

\* The five reads of a to_dict call that starts at read number k
Reads(s, k) == [i \in 1..5 |-> Read(s, k + i - 1)]

----------------------------------------------------------------------------
\* Requests

Has(data, field) == data[field] # << >>
Get_(data, field, default) == IF Has(data, field) THEN data[field][1] ELSE default

\* parse_datetime on a date text: [kind |-> "iso", t |-> instant] stands for a
\* text one of the accepted formats reads as the instant t, "garbage" for a text
\* none of them reads, "empty" for "".
parse_datetime(date_string) ==
  IF date_string.kind = "iso" THEN <<date_string.t>> ELSE << >>

\* `not data[field]` for the required fields
Falsy(field, v) ==
  IF field = "unlock_date" THEN v.kind = "empty" ELSE v = << >>

required_fields == <<"title", "content", "creator_name", "unlock_date">>

\* FirstMissing reporting the last such field instead of the first
LastMissing(data) ==
  LET bad == {i \in 1..Len(required_fields) :
                \/ ~Has(data, required_fields[i])
                \/ Falsy(required_fields[i], data[required_fields[i]][1])}
  IN IF bad = {} THEN 0 ELSE CHOOSE i \in bad : \A j \in bad : i >= j

\* The first required field that is absent or empty; 0 when there is none
FirstMissing(data) ==
  LET bad == {i \in 1..Len(required_fields) :
                \/ ~Has(data, required_fields[i])
                \/ Falsy(required_fields[i], data[required_fields[i]][1])}
  IN IF bad = {} THEN 0 ELSE CHOOSE i \in bad : \A j \in bad : i <= j

\* `not data`: no JSON object, or an object with no key
NoData(data) == \A f \in DOMAIN data : ~Has(data, f)

\* jsonify({'error': ...}); the message is <<text, field named in it>>
Error(message, field) == [error |-> <<message, field>>]

----------------------------------------------------------------------------
\* Inputs of the model

Title == <<"t">>
Creator == <<"a">>
Contents == {<<"x">>, <<"Y">>}

\* a JSON list of texts, or one text
TagList(v) == [kind |-> "list", v |-> v]
TagText(v) == [kind |-> "str", v |-> v]

IsoDate(t) == [kind |-> "iso", t |-> t]
GarbageDate == [kind |-> "garbage", t |-> 0]
EmptyDate == [kind |-> "empty", t |-> 0]
Dates == {IsoDate(t) : t \in Instants} \cup {GarbageDate}

Body(title, content, creator_name, unlock_date, content_type, tags, is_public) ==
  [title |-> title, content |-> content, creator_name |-> creator_name,
   creator_email |-> << >>, unlock_date |-> unlock_date,
   content_type |-> content_type, tags |-> tags, is_public |-> is_public]

\* what a full body carries besides title, creator and date
Payloads ==
  {[content |-> <<"x">>, content_type |-> << >>, tags |-> << >>,
    is_public |-> << >>],
   [content |-> <<"Y">>, content_type |-> <<"code">>,
    tags |-> <<TagList(<< <<"a">>, <<"b">> >>)>>, is_public |-> <<FALSE>>]}

\* bodies whose required fields are all there, with every kind of date
FullBodies ==
  {Body(<<Title>>, <<p.content>>, <<Creator>>, <<d>>,
        p.content_type, p.tags, p.is_public) :
     p \in Payloads, d \in Dates}

\* The i-th required field of a body whose first defect is at field `at`:
\* present before it, absent or empty at it, and present or absent after it
Defective(i, at, empty, rest, v, e) ==
  IF i < at THEN <<v>>
  ELSE IF i = at THEN (IF empty THEN <<e>> ELSE << >>)
  ELSE IF rest THEN <<v>> ELSE << >>

\* bodies with required fields absent or empty (the empty object among them);
\* the date, when there, is one that does not parse
PartialBodies ==
  {Body(Defective(1, at, empty, rest, Title, << >>),
        Defective(2, at, empty, rest, <<"x">>, << >>),
        Defective(3, at, empty, rest, Creator, << >>),
        Defective(4, at, empty, rest, GarbageDate, EmptyDate),
        << >>, << >>, << >>) :
     at \in 1..4, empty \in BOOLEAN, rest \in BOOLEAN}
    \cup {Body(<< >>, << >>, << >>, << >>, << >>, <<TagList(<< >>)>>, << >>)}

CreateBodies == FullBodies \cup PartialBodies

\* random.uniform(10, 90), (10, 90), (-15, 15), (0.8, 1.2): the draws of the model
FragmentDraws ==
  {[x |-> 10, y |-> 90, rotation |-> -15, scale |-> 12]}

\* bodies of a position update: none of the four keys, or all four out of range
PositionBodies ==
  {[fragment_x |-> << >>, fragment_y |-> << >>,
    fragment_rotation |-> << >>, fragment_scale |-> << >>],
   [fragment_x |-> <<150>>, fragment_y |-> <<-50>>,
    fragment_rotation |-> <<45>>, fragment_scale |-> <<1>>]}

----------------------------------------------------------------------------
\* Handlers (routes.py)

Max(a, b) == IF a >= b THEN a ELSE b
Min(a, b) == IF a <= b THEN a ELSE b

\* A step serves the request `req` of the operation `op` on the capsule `id`
\* (0 when it names none) and answers `status` with the JSON `body`
Respond(op, id, req, status, body) ==
  /\ resp' = [op |-> op, id |-> id, req |-> req, status |-> status, body |-> body]
  /\ pre' = [store |-> store, now |-> now, deleted |-> deleted]

\* db.session.add / commit of one row
Insert(db, c) ==
  [i \in DOMAIN db \cup {c.id} |-> IF i = c.id THEN c ELSE db[i]]

\* Remove that leaves the row in the table
RemoveNothing(db, id) == db

\* db.session.delete / commit of one row
Remove(db, id) == [i \in DOMAIN db \ {id} |-> db[i]]

\* The tags column of a new capsule (lines 212-214)
StoredTags(data) ==
  LET tags == Get_(data, "tags", TagList(<< >>))
  IN IF tags.kind = "list" THEN Join(tags.v) ELSE tags.v

\* The row create_capsule builds (lines 217-226 and Capsule.__init__), once the
\* commit has set created_at
NewCapsule(data, id, unlock_date, created_at, f) ==
  [id |-> id,
   title |-> data.title[1],
   content |-> data.content[1],
   content_type |-> Get_(data, "content_type", "text"),
   creator_name |-> data.creator_name[1],
   creator_email |-> data.creator_email,
   tags |-> StoredTags(data),
   created_at |-> created_at,
   unlock_date |-> unlock_date,
   is_public |-> Get_(data, "is_public", TRUE),
   fragment_x |-> f.x,
   fragment_y |-> f.y,
   fragment_rotation |-> f.rotation,
   fragment_scale |-> f.scale]

\* generate_uuid handing out again the identifier of a deleted capsule
generate_uuid_again ==
  {id \in Ids \ DOMAIN store : \A other \in Ids \ DOMAIN store : id <= other}

\* uuid.uuid4(): an identifier never returned before (none when the model's
\* identifiers are used up)
generate_uuid ==
  {id \in Ids \ used : \A other \in Ids \ used : id <= other}

\* NotInFuture letting the current instant itself through
NotInFutureStrict(unlock_date, t) == unlock_date < t

\* The date check of create_capsule (line 208)
NotInFuture(unlock_date, t) == unlock_date <= t

\* create_capsule asking to_dict for the content
CreateIncludeContentAlways == TRUE

\* The flag create_capsule passes to to_dict (line 233)
CreateIncludeContent == FALSE

\* POST /capsules.  Clock reads: 1 line 207, 2 the created_at default at the
\* commit, 3..7 to_dict.
create_capsule(data) ==
    LET field == FirstMissing(data)
        unlock_date == parse_datetime(data.unlock_date[1])
    IN IF NoData(data)
       THEN /\ Respond("Create", 0, data, 400, Error("No data provided", ""))
            /\ UNCHANGED <<store, used, deleted, now>>
       ELSE IF field # 0
       THEN /\ Respond("Create", 0, data, 400,
                       Error("Missing required field", required_fields[field]))
            /\ UNCHANGED <<store, used, deleted, now>>
       ELSE IF unlock_date = << >>
       THEN /\ Respond("Create", 0, data, 400,
                       Error("Invalid unlock_date format. Use ISO 8601 format.", ""))
            /\ UNCHANGED <<store, used, deleted, now>>
       ELSE \E s \in Schedules(7) :
              IF NotInFuture(unlock_date[1], Read(s, 1))
              THEN /\ Respond("Create", 0, data, 400,
                              Error("Unlock date must be in the future", ""))
                   /\ now' = Read(s, 1)
                   /\ UNCHANGED <<store, used, deleted>>
              ELSE \E id \in generate_uuid, f \in FragmentDraws :
                     LET capsule ==
                           NewCapsule(data, id, unlock_date[1], Read(s, 2), f)
                     IN /\ store' = Insert(store, capsule)
                        /\ used' = used \cup {id}
                        /\ now' = s.to
                        /\ Respond("Create", id, data, 201,
                                   [message |-> "Capsule created successfully",
                                    capsule |-> to_dict(capsule, CreateIncludeContent,
                                                        Reads(s, 3))])
                        /\ UNCHANGED deleted

\* Capsule.query.get
Found(db, id) == id \in DOMAIN db

\* Private with the test left out
PrivateIgnored(capsule) == FALSE

\* The test of line 165
Private(capsule) == ~capsule.is_public

\* GET /capsules/<id>.  Clock reads: 1 line 168, 2..6 to_dict.
get_capsule(capsule_id) ==
  IF ~Found(store, capsule_id)
  THEN /\ Respond("Get", capsule_id, << >>, 404, Error("Capsule not found", ""))
       /\ UNCHANGED <<store, used, deleted, now>>
  ELSE IF Private(store[capsule_id])
  THEN /\ Respond("Get", capsule_id, << >>, 403, Error("This capsule is private", ""))
       /\ UNCHANGED <<store, used, deleted, now>>
  ELSE \E s \in Schedules(6) :
         LET capsule == store[capsule_id]
         IN /\ Respond("Get", capsule_id, << >>, 200,
                       to_dict(capsule, is_unlocked(capsule, Read(s, 1)), Reads(s, 2)))
            /\ now' = s.to
            /\ UNCHANGED <<store, used, deleted>>

\* delete_capsule removing the row and then answering that there is none
delete_capsule_unanswered(capsule_id) ==
  /\ store' = Remove(store, capsule_id)
  /\ deleted' = deleted \cup (DOMAIN store \cap {capsule_id})
  /\ Respond("Delete", capsule_id, << >>, 404, Error("Capsule not found", ""))
  /\ UNCHANGED <<used, now>>

\* DELETE /capsules/<id>
delete_capsule(capsule_id) ==
  IF ~Found(store, capsule_id)
  THEN /\ Respond("Delete", capsule_id, << >>, 404, Error("Capsule not found", ""))
       /\ UNCHANGED <<store, used, deleted, now>>
  ELSE /\ store' = Remove(store, capsule_id)
       /\ deleted' = deleted \cup {capsule_id}
       /\ Respond("Delete", capsule_id, << >>, 200,
                  [message |-> "Capsule deleted successfully"])
       /\ UNCHANGED <<used, now>>

\* Clamp without the upper bound
ClampLower(lo, hi, v) == Max(lo, v)

\* Clamp without the lower bound
ClampUpper(lo, hi, v) == Min(hi, v)

\* max(lo, min(hi, float(v)))
Clamp(lo, hi, v) == Max(lo, Min(hi, v))

\* Positioned writing the column defaults into the fields the body leaves out
PositionedDefaults(capsule, data) ==
  [capsule EXCEPT
     !.fragment_x = IF Has(data, "fragment_x")
                    THEN Clamp(0, 100, data.fragment_x[1]) ELSE 50,
     !.fragment_y = IF Has(data, "fragment_y")
                    THEN Clamp(0, 100, data.fragment_y[1]) ELSE 50,
     !.fragment_rotation = IF Has(data, "fragment_rotation")
                           THEN Clamp(-30, 30, data.fragment_rotation[1]) ELSE 0,
     !.fragment_scale = IF Has(data, "fragment_scale")
                        THEN Clamp(5, 15, data.fragment_scale[1]) ELSE 10]

\* Positioned that also publishes the capsule
PositionedPublished(capsule, data) ==
  [capsule EXCEPT
     !.is_public = TRUE,
     !.fragment_x = IF Has(data, "fragment_x")
                    THEN Clamp(0, 100, data.fragment_x[1]) ELSE @,
     !.fragment_y = IF Has(data, "fragment_y")
                    THEN Clamp(0, 100, data.fragment_y[1]) ELSE @,
     !.fragment_rotation = IF Has(data, "fragment_rotation")
                           THEN Clamp(-30, 30, data.fragment_rotation[1]) ELSE @,
     !.fragment_scale = IF Has(data, "fragment_scale")
                        THEN Clamp(5, 15, data.fragment_scale[1]) ELSE @]

\* The row after lines 283-290
Positioned(capsule, data) ==
  [capsule EXCEPT
     !.fragment_x = IF Has(data, "fragment_x")
                    THEN Clamp(0, 100, data.fragment_x[1]) ELSE @,
     !.fragment_y = IF Has(data, "fragment_y")
                    THEN Clamp(0, 100, data.fragment_y[1]) ELSE @,
     !.fragment_rotation = IF Has(data, "fragment_rotation")
                           THEN Clamp(-30, 30, data.fragment_rotation[1]) ELSE @,
     !.fragment_scale = IF Has(data, "fragment_scale")
                        THEN Clamp(5, 15, data.fragment_scale[1]) ELSE @]

\* PATCH /capsules/<id>/position.  Clock reads: 1 line 294, 2..6 to_dict.
update_capsule_position(capsule_id, data) ==
  IF ~Found(store, capsule_id)
  THEN /\ Respond("UpdatePosition", capsule_id, << >>, 404,
                  Error("Capsule not found", ""))
       /\ UNCHANGED <<store, used, deleted, now>>
  ELSE \E s \in Schedules(6) :
         LET capsule == Positioned(store[capsule_id], data)
         IN /\ store' = [store EXCEPT ![capsule_id] = capsule]
            /\ Respond("UpdatePosition", capsule_id, data, 200,
                       to_dict(capsule, is_unlocked(capsule, Read(s, 1)), Reads(s, 2)))
            /\ now' = s.to
            /\ UNCHANGED <<used, deleted>>

RECURSIVE AnyOrder(_)
\* The sequences that hold each row of `rows` once
AnyOrder(rows) ==
  IF rows = {} THEN {<< >>}
  ELSE UNION {{<<r>> \o q : q \in AnyOrder(rows \ {r})} : r \in rows}

RECURSIVE Ordered(_, _, _, _)
\* The sequences that hold each row of `rows` once in the order of ORDER BY
\* column [DESC]; rows with equal keys come in any order.  The rows are taken
\* in three parts: those before the row in the middle, those with its key,
\* those after it.
Ordered(db, rows, column, descending) ==
  IF rows = {} THEN {<< >>}
  ELSE LET before(r) == {o \in rows : IF descending THEN db[o][column] > db[r][column]
                                                    ELSE db[o][column] < db[r][column]}
           same(r) == {o \in rows : db[o][column] = db[r][column]}
           half == Cardinality(rows) \div 2
           middle == CHOOSE r \in rows :
                       /\ Cardinality(before(r)) <= half
                       /\ Cardinality(before(r)) + Cardinality(same(r)) > half
       IN {a \o t \o z :
             a \in Ordered(db, before(middle), column, descending),
             t \in AnyOrder(same(middle)),
             z \in Ordered(db, (rows \ before(middle)) \ same(middle), column, descending)}

\* Page that skips nothing
PageFromStart(q, offset, limit) ==
  SubSeq(q, 1, IF limit < 0 THEN Len(q) ELSE Min(Len(q), limit))

\* .offset(offset).limit(limit): LIMIT limit OFFSET offset
Page(q, offset, limit) ==
  SubSeq(q, Max(offset, 0) + 1,
         IF limit < 0 THEN Len(q) ELSE Min(Len(q), Max(offset, 0) + limit))

\* a query parameter that is absent or "" applies no filter
Given(arg) == arg # << >> /\ arg[1] # << >>

\* The filters of get_capsules (lines 68-83)
Matches(c, args) ==
  /\ c.is_public = TRUE
  /\ Given(args.tag) => Contains(c.tags, args.tag[1])
  /\ Given(args.search) =>
       ilike(c.title, args.search[1]) \/ ilike(c.content, args.search[1])
  /\ args.content_type # << >> => c.content_type = args.content_type[1]

\* The rows get_capsules can select (line 85), as identifiers in order
ListRows(db, args) ==
  LET limit == Min(Get_(args, "limit", 50), 100)
      offset == Get_(args, "offset", 0)
      rows == {id \in DOMAIN db : Matches(db[id], args)}
  IN {Page(q, offset, limit) :
        q \in Ordered(db, rows, "created_at", TRUE)}

\* The body of a get_capsules response for the selected rows; the clock reads of
\* the i-th row are 6(i-1)+1 (line 90) and the five of to_dict after it
ListBody(db, args, rows, s) ==
  [capsules |-> [i \in DOMAIN rows |->
                   to_dict(db[rows[i]],
                           is_unlocked(db[rows[i]], Read(s, 6 * (i - 1) + 1)),
                           Reads(s, 6 * (i - 1) + 2))],
   total |-> Cardinality({id \in DOMAIN db : Matches(db[id], args)}),
   limit |-> Min(Get_(args, "limit", 50), 100),
   offset |-> Get_(args, "offset", 0)]

NoFilter ==
  [tag |-> << >>, search |-> << >>, content_type |-> << >>,
   limit |-> << >>, offset |-> << >>]

\* query strings of the model
ListArgs ==
  {NoFilter,
   [NoFilter EXCEPT !.search = << <<"X">> >>, !.limit = <<1>>]}

\* GET /capsules
get_capsules(args) ==
    \E rows \in ListRows(store, args) :
      \E s \in Schedules(6 * Len(rows)) :
        /\ Respond("List", 0, args, 200, ListBody(store, args, rows, s))
        /\ now' = s.to
        /\ UNCHANGED <<store, used, deleted>>

\* UnlockedRows without the test of the unlock date
UnlockedRowsAny(db, limit, t) ==
  LET rows == {id \in DOMAIN db : db[id].is_public = TRUE}
  IN {Page(q, 0, limit) :
        q \in Ordered(db, rows, "created_at", TRUE)}

\* The rows get_unlocked_capsules selects at the instant t (lines 115-118)
UnlockedRows(db, limit, t) ==
  LET rows == {id \in DOMAIN db : db[id].is_public = TRUE /\ db[id].unlock_date <= t}
  IN {Page(q, 0, limit) :
        q \in Ordered(db, rows, "created_at", TRUE)}

\* LockedRows in the order of the other lists
LockedRowsByCreation(db, limit, t) ==
  LET rows == {id \in DOMAIN db : db[id].is_public = TRUE /\ db[id].unlock_date > t}
  IN {Page(q, 0, limit) :
        q \in Ordered(db, rows, "created_at", TRUE)}

\* The rows get_locked_capsules selects at the instant t (lines 139-142)
LockedRows(db, limit, t) ==
  LET rows == {id \in DOMAIN db : db[id].is_public = TRUE /\ db[id].unlock_date > t}
  IN {Page(q, 0, limit) :
        q \in Ordered(db, rows, "unlock_date", FALSE)}

\* The list of a collage response; the first clock read is the query's `now`,
\* the i-th row is projected with the reads 5(i-1)+2 ..
Projected(db, rows, include_content, s) ==
  [capsules |-> [i \in DOMAIN rows |->
                   to_dict(db[rows[i]], include_content, Reads(s, 5 * (i - 1) + 2))]]

LimitArgs == {<< >>, <<1>>}

\* GET /capsules/unlocked
get_unlocked_capsules(arg) ==
  \E s \in Schedules(1 + 5 * Cardinality(DOMAIN store)) :
    \E rows \in UnlockedRows(store, Min(Get_([limit |-> arg], "limit", 30), 100),
                             Read(s, 1)) :
      /\ Respond("ListUnlocked", 0, arg, 200, Projected(store, rows, TRUE, s))
      /\ now' = s.to
      /\ UNCHANGED <<store, used, deleted>>

\* GET /capsules/locked
get_locked_capsules(arg) ==
  \E s \in Schedules(1 + 5 * Cardinality(DOMAIN store)) :
    \E rows \in LockedRows(store, Min(Get_([limit |-> arg], "limit", 10), 50),
                           Read(s, 1)) :
      /\ Respond("ListLocked", 0, arg, 200, Projected(store, rows, FALSE, s))
      /\ now' = s.to
      /\ UNCHANGED <<store, used, deleted>>

\* all_tags over the private capsules too
all_tags_any(db) ==
  LET capsules == {id \in DOMAIN db : db[id].tags # << >>}
      tags(id) == Split(db[id].tags)
  IN UNION {{strip(tags(id)[i]) : i \in 1..Len(tags(id))} : id \in capsules}
       \ {<< >>}

\* The tags get_tags collects (lines 304-316)
all_tags(db) ==
  LET capsules == {id \in DOMAIN db : db[id].is_public = TRUE /\ db[id].tags # << >>}
      tags(id) == Split(db[id].tags)
  IN UNION {{strip(tags(id)[i]) : i \in 1..Len(tags(id))} : id \in capsules}
       \ {<< >>}

\* GET /tags
get_tags ==
  /\ Respond("ListTags", 0, << >>, 200, [tags |-> sorted(all_tags(store))])
  /\ UNCHANGED <<store, used, deleted, now>>

\* Counts whose total takes the private capsules in
CountsAll(db, t) ==
  [total |-> Cardinality(DOMAIN db),
   unlocked |-> Cardinality({id \in DOMAIN db :
                               db[id].is_public = TRUE /\ db[id].unlock_date <= t}),
   locked |-> Cardinality({id \in DOMAIN db :
                             db[id].is_public = TRUE /\ db[id].unlock_date > t})]

\* The three counts of get_stats at the instant t (lines 331-339)
Counts(db, t) ==
  [total |-> Cardinality({id \in DOMAIN db : db[id].is_public = TRUE}),
   unlocked |-> Cardinality({id \in DOMAIN db :
                               db[id].is_public = TRUE /\ db[id].unlock_date <= t}),
   locked |-> Cardinality({id \in DOMAIN db :
                             db[id].is_public = TRUE /\ db[id].unlock_date > t})]

\* GET /stats.  Clock read: 1 line 329.
get_stats ==
  \E s \in Schedules(1) :
    /\ Respond("Stats", 0, << >>, 200, Counts(store, Read(s, 1)))
    /\ now' = s.to
    /\ UNCHANGED <<store, used, deleted>>

\* No request, no response
Idle == [op |-> "none", id |-> 0, req |-> << >>, status |-> 0, body |-> << >>]

\* Time passes between two requests
Tick ==
  /\ now < MaxTime
  /\ now' = now + 1
  /\ pre' = [store |-> store, now |-> now + 1, deleted |-> deleted]
  /\ UNCHANGED <<store, used, deleted, resp>>

\* The client receives the response
Deliver ==
  /\ resp # Idle
  /\ resp' = Idle
  /\ pre' = [store |-> store, now |-> now, deleted |-> deleted]
  /\ UNCHANGED <<store, used, deleted, now>>

Init ==
  /\ store = << >>
  /\ used = {}
  /\ deleted = {}
  /\ now = 0
  /\ resp = Idle
  /\ pre = [store |-> << >>, now |-> 0, deleted |-> {}]

\* One request at a time (spec section 5)
Serve ==
  /\ resp = Idle
  /\ \/ \E data \in CreateBodies : create_capsule(data)
     \/ \E id \in Ids : get_capsule(id)
     \/ \E id \in Ids : delete_capsule(id)
     \/ \E id \in Ids, data \in PositionBodies : update_capsule_position(id, data)
     \/ \E args \in ListArgs : get_capsules(args)
     \/ \E arg \in LimitArgs : get_unlocked_capsules(arg)
     \/ \E arg \in LimitArgs : get_locked_capsules(arg)
     \/ get_tags
     \/ get_stats
     \/ Tick

Next == Serve \/ Deliver

Spec == Init /\ [][Next]_vars

\* The service with a clock that keeps advancing between the requests and
\* responses that reach their client
SpecLive == Spec /\ SF_vars(Tick) /\ WF_vars(Deliver)

----------------------------------------------------------------------------
\* Capsule.to_dict alone: any stored capsule, either flag, and any five clock
\* reads in program order

\* a table holding one capsule create_capsule can have stored
InitToDict ==
  /\ \E data \in FullBodies, created_at \in Instants :
       /\ data.unlock_date[1].kind = "iso"
       /\ created_at < data.unlock_date[1].t
       /\ store = Insert(<< >>, NewCapsule(data, 1, data.unlock_date[1].t,
                                           created_at, CHOOSE f \in FragmentDraws : TRUE))
       /\ now \in created_at..MaxTime
  /\ used = {1}
  /\ deleted = {}
  /\ resp = Idle
  /\ pre = [store |-> store, now |-> now, deleted |-> deleted]

\* what five successive clock reads can return
ClockReads ==
  {t \in [1..5 -> now..MaxTime] : \A i \in 1..4 : t[i] <= t[i + 1]}

\* One call of to_dict
Project ==
  \E id \in DOMAIN store, include_content \in BOOLEAN, t \in ClockReads :
    /\ Respond("to_dict", id, [include_content |-> include_content, t |-> t], 200,
               to_dict(store[id], include_content, t))
    /\ now' = t[5]
    /\ UNCHANGED <<store, used, deleted>>

NextToDict ==
  \/ resp = Idle /\ Project
  \/ resp = Idle /\ Tick
  \/ Deliver

SpecToDict == InitToDict /\ [][NextToDict]_vars


----------------------------------------------------------------------------
\* time_until_unlock and the time_remaining of to_dict on capsules that unlock
\* minutes, hours and days after the clock's instants

\* unlock dates around one second, one minute, one hour, one day, one day one
\* hour one minute and one second, and two days
RemainingDates == {1, 60, 3600, 86400, 90061, 172800}

\* a table holding one capsule created at instant 0
InitRemaining ==
  /\ \E data \in FullBodies, unlock_date \in RemainingDates :
       /\ data.unlock_date[1].kind = "iso"
       /\ store = Insert(<< >>, NewCapsule(data, 1, unlock_date, 0,
                                           CHOOSE f \in FragmentDraws : TRUE))
  /\ now = 0
  /\ used = {1}
  /\ deleted = {}
  /\ resp = Idle
  /\ pre = [store |-> store, now |-> now, deleted |-> deleted]

\* One call of time_until_unlock: the read of line 106 answers t4, that of
\* line 108 answers t5
UntilUnlock ==
  \E id \in DOMAIN store, t4 \in now..MaxTime :
    \E t5 \in t4..MaxTime :
      /\ Respond("time_until_unlock", id, <<t4, t5>>, 200,
                 time_until_unlock(store[id], t4, t5))
      /\ now' = t5
      /\ UNCHANGED <<store, used, deleted>>

NextRemaining ==
  \/ resp = Idle /\ UntilUnlock
  \/ resp = Idle /\ Project
  \/ resp = Idle /\ Tick
  \/ Deliver

SpecRemaining == InitRemaining /\ [][NextRemaining]_vars


----------------------------------------------------------------------------
\* get_stats query by query, with the commits of other clients' Create and
\* Delete requests between its queries.  The request in service is resp with
\* status 0: its req holds the `now` of line 329 and its body the counts made
\* so far.

\* line 329: the clock read of a Stats request
StatsNow ==
  /\ resp = Idle
  /\ Respond("Stats", 0, <<now>>, 0, << >>)
  /\ UNCHANGED <<store, used, deleted, now>>

InService == resp.op = "Stats" /\ resp.status = 0

\* lines 331-333, 334-337 and 338-345: one count query each, the last followed
\* by the response
StatsQuery ==
  /\ InService
  /\ LET counts == Counts(store, resp.req[1])
     IN resp' =
          IF resp.body = << >>
          THEN [resp EXCEPT !.body = [total |-> counts.total]]
          ELSE IF "unlocked" \notin DOMAIN resp.body
          THEN [resp EXCEPT !.body = [total |-> resp.body.total,
                                      unlocked |-> counts.unlocked]]
          ELSE [resp EXCEPT !.status = 200,
                            !.body = [total |-> resp.body.total,
                                      unlocked |-> resp.body.unlocked,
                                      locked |-> counts.locked]]
  /\ UNCHANGED <<store, used, deleted, now, pre>>

\* the commit of another client's create_capsule (lines 206-229)
OtherCreate ==
  \E data \in FullBodies, id \in generate_uuid, f \in FragmentDraws :
    /\ data.unlock_date[1].kind = "iso"
    /\ ~NotInFuture(data.unlock_date[1].t, now)
    /\ store' = Insert(store, NewCapsule(data, id, data.unlock_date[1].t, now, f))
    /\ used' = used \cup {id}
    /\ UNCHANGED <<deleted, now, resp, pre>>

\* the commit of another client's delete_capsule (lines 248-253)
OtherDelete ==
  \E id \in Ids :
    /\ Found(store, id)
    /\ store' = Remove(store, id)
    /\ deleted' = deleted \cup {id}
    /\ UNCHANGED <<used, now, resp, pre>>

NextStats ==
  \/ StatsNow
  \/ StatsQuery
  \/ OtherCreate
  \/ OtherDelete
  \/ Tick
  \/ resp.status = 200 /\ Deliver

SpecStats == Init /\ [][NextStats]_vars


----------------------------------------------------------------------------
\* update_capsule_position alone: a table of one public and one private capsule,
\* and bodies with any of the four keys

\* the values a body gives the keys it has: all below their range, all inside,
\* all above, or one of each (the scale in tenths)
PositionValues ==
  {[fragment_x |-> -1, fragment_y |-> -1000, fragment_rotation |-> -31, fragment_scale |-> 4],
   [fragment_x |-> 50, fragment_y |-> 25, fragment_rotation |-> 0, fragment_scale |-> 10],
   [fragment_x |-> 101, fragment_y |-> 1000, fragment_rotation |-> 31, fragment_scale |-> 16],
   [fragment_x |-> 101, fragment_y |-> 25, fragment_rotation |-> -31, fragment_scale |-> 4]}

\* bodies of a position update: any of the four keys, with those values
WidePositionBodies ==
  {[f \in DOMAIN v |-> IF f \in keys THEN <<v[f]>> ELSE << >>] :
     v \in PositionValues,
     keys \in SUBSET {"fragment_x", "fragment_y", "fragment_rotation", "fragment_scale"}}

\* the bodies sent for a capsule: every body for the first capsule, the bodies
\* of Spec for any other identifier
PositionRequests(capsule_id) ==
  IF capsule_id = 1 THEN WidePositionBodies ELSE PositionBodies

\* a table create_capsule can have built at the instant 0: a public capsule
\* that unlocks at 1 and a private one that unlocks at MaxTime
InitPosition ==
  /\ store =
       LET f == CHOOSE d \in FragmentDraws : TRUE
           public == CHOOSE p \in Payloads : p.is_public = << >>
           private == CHOOSE p \in Payloads : p.is_public = <<FALSE>>
           body(p, t) == Body(<<Title>>, <<p.content>>, <<Creator>>, <<IsoDate(t)>>,
                              p.content_type, p.tags, p.is_public)
       IN Insert(Insert(<< >>, NewCapsule(body(public, 1), 1, 1, 0, f)),
                 NewCapsule(body(private, MaxTime), 2, MaxTime, 0, f))
  /\ used = {1, 2}
  /\ deleted = {}
  /\ now = 0
  /\ resp = Idle
  /\ pre = [store |-> store, now |-> now, deleted |-> deleted]

NextPosition ==
  \/ /\ resp = Idle
     /\ \E id \in 1..3 : \E data \in PositionRequests(id) :
          update_capsule_position(id, data)
  \/ Deliver

SpecPosition == InitPosition /\ [][NextPosition]_vars

----------------------------------------------------------------------------
\* The three lists over a large table: more public capsules than any limit the
\* handlers set, created one a second; the requests come after the last
\* creation, at an instant the clock stands at while they are served

\* Number of public capsules of the large table
ManyCapsules == 101

\* its rows: the public capsules and four private ones among them
ManyIds == 1..(ManyCapsules + 4)

\* the i-th row: created at the instant i, unlocking one instant after the
\* (i-1)-th; every other one is code, every 25th is private
ManyCapsule(i) ==
  NewCapsule(Body(<<Title>>, << <<"x">> >>, <<Creator>>,
                  <<IsoDate(ManyCapsules + 4 + i)>>,
                  IF i % 2 = 0 THEN <<"code">> ELSE << >>, << >>,
                  IF i % 25 = 0 /\ i <= 100 THEN <<FALSE>> ELSE << >>),
             i, ManyCapsules + 4 + i, i, CHOOSE f \in FragmentDraws : TRUE)

\* the instants of the requests: before the first unlock date, after the
\* first thirty, after the last
ManyInstants ==
  {ManyCapsules + 4, ManyCapsules + 4 + 30, 2 * (ManyCapsules + 4)}

InitMany ==
  /\ store = [i \in ManyIds |-> ManyCapsule(i)]
  /\ used = ManyIds
  /\ deleted = {}
  /\ now \in ManyInstants
  /\ resp = Idle
  /\ pre = [store |-> store, now |-> now, deleted |-> deleted]

\* limits around the defaults and the caps of the three lists
ManyLimits == {<< >>, <<-1>>, <<0>>, <<1>>, <<50>>, <<51>>, <<100>>, <<101>>}

ManyListArgs ==
  {[NoFilter EXCEPT !.limit = limit, !.offset = offset, !.content_type = content_type] :
     limit \in ManyLimits, offset \in {<< >>, <<1>>, <<100>>, <<200>>},
     content_type \in {<< >>, <<"code">>}}

NextMany ==
  \/ /\ resp = Idle
     /\ \/ \E args \in ManyListArgs : get_capsules(args)
        \/ \E arg \in ManyLimits : get_unlocked_capsules(arg)
        \/ \E arg \in ManyLimits : get_locked_capsules(arg)
  \/ Deliver

SpecMany == InitMany /\ [][NextMany]_vars

----------------------------------------------------------------------------
\* The read-only operations over a small table: three capsules, public or
\* private, with tags or without, two of them created at the same instant

\* what a stored capsule carries: the payloads of Spec, and tags given as one
\* text with spaces, empty pieces, capitals and pieces other capsules have
SmallPayloads ==
  Payloads \cup
  {[content |-> <<"Y">>, content_type |-> <<"code">>, is_public |-> <<TRUE>>,
    tags |-> <<TagText(<<" ", "b", " ", ",", "a", ",", ",", " ">>)>>],
   [content |-> <<"x">>, content_type |-> << >>, is_public |-> <<FALSE>>,
    tags |-> <<TagText(<<"y", ",", " ", "a">>)>>],
   [content |-> <<"x">>, content_type |-> << >>, is_public |-> << >>,
    tags |-> <<TagText(<<"B", ",", "a", "b", ",", "a">>)>>]}

\* the row create_capsule stored for the payload p at the instant created_at
SmallCapsule(id, p, created_at, unlock_date) ==
  NewCapsule(Body(<<Title>>, <<p.content>>, <<Creator>>, <<IsoDate(unlock_date)>>,
                  p.content_type, p.tags, p.is_public),
             id, unlock_date, created_at, CHOOSE f \in FragmentDraws : TRUE)

InitSmall ==
  /\ \E p1 \in SmallPayloads, p2 \in SmallPayloads, p3 \in SmallPayloads :
       store = Insert(Insert(Insert(<< >>, SmallCapsule(1, p1, 0, 1)),
                             SmallCapsule(2, p2, 0, MaxTime)),
                      SmallCapsule(3, p3, 1, MaxTime))
  /\ used = {1, 2, 3}
  /\ deleted = {}
  /\ now = 1
  /\ resp = Idle
  /\ pre = [store |-> store, now |-> now, deleted |-> deleted]

\* query strings of List: each filter alone, a page, a negative limit
SmallListArgs ==
  {NoFilter,
   [NoFilter EXCEPT !.tag = << <<"a">> >>],
   [NoFilter EXCEPT !.search = << <<"X">> >>],
   [NoFilter EXCEPT !.content_type = <<"code">>],
   [NoFilter EXCEPT !.limit = <<1>>, !.offset = <<1>>],
   [NoFilter EXCEPT !.limit = <<-1>>]}

SmallLimits == {<< >>, <<1>>, <<-1>>}

NextSmall ==
  \/ /\ resp = Idle
     /\ \/ \E args \in SmallListArgs : get_capsules(args)
        \/ \E arg \in SmallLimits : get_unlocked_capsules(arg)
        \/ \E arg \in SmallLimits : get_locked_capsules(arg)
        \/ get_tags
        \/ get_stats
        \/ Tick
  \/ Deliver

SpecSmall == InitSmall /\ [][NextSmall]_vars

----------------------------------------------------------------------------
\* Properties

\* The capsule projections a response carries
Dicts(r) ==
  IF r.op \in {"Get", "UpdatePosition", "to_dict"} /\ r.status = 200
  THEN {r.body}
  ELSE IF r.op = "Create" /\ r.status = 201
  THEN {r.body.capsule}
  ELSE IF r.op \in {"List", "ListUnlocked", "ListLocked"}
  THEN {r.body.capsules[i] : i \in DOMAIN r.body.capsules}
  ELSE {}

Shows(d, key) == key \in DOMAIN d

\* C1: a response of any operation carries a capsule's content only if the
\* clock has reached that capsule's unlock date when the response is built.
C1_ContentOnlyWhenUnlocked ==
  \A d \in Dicts(resp) :
    Shows(d, "content") =>
      /\ d.id \in DOMAIN store
      /\ now >= store[d.id].unlock_date

\* C1 witness: a list response that shows the content of one capsule and
\* withholds that of another, still locked.
C1_Witness ==
  /\ resp.op = "List"
  /\ \E d \in Dicts(resp) : Shows(d, "content")
  /\ \E d \in Dicts(resp) : ~Shows(d, "content") /\ now < store[d.id].unlock_date

\* C2: a List response does not depend on the content of a public capsule that
\* is still locked: with any other content in that one row, the same request
\* can be answered by the same body (capsules and total).
C2_ListNonInterference ==
  resp.op = "List" =>
    \A id \in DOMAIN store, content \in Contents :
      (store[id].is_public /\ store[id].unlock_date > now) =>
        LET twin == [store EXCEPT ![id].content = content]
        IN \E rows \in ListRows(twin, resp.req) :
             \E s \in SchedulesFrom(pre.now, 6 * Len(rows)) :
               ListBody(twin, resp.req, rows, s) = resp.body

\* C3: no projection carries both content and time_remaining, whatever the
\* flag and whatever the five clock reads return.
C3_NeverBoth ==
  \A d \in Dicts(resp) : ~(Shows(d, "content") /\ Shows(d, "time_remaining"))

\* C3 witness: a projection asked for content whose clock reads straddle the
\* unlock date.
C3_Witness ==
  /\ resp.op = "to_dict"
  /\ resp.req.include_content
  /\ resp.req.t[1] < store[resp.id].unlock_date
  /\ resp.req.t[2] >= store[resp.id].unlock_date
  /\ Shows(resp.body, "content")

\* C4: a projection carries time_remaining exactly when its own is_unlocked
\* key is false, also when the clock advances between the reads.
C4_TimeRemainingIffLocked ==
  \A d \in Dicts(resp) : Shows(d, "time_remaining") <=> (d.is_unlocked = FALSE)

\* C5: is_unlocked is false before the unlock date and true from it on: no
\* response built before the unlock date reports the capsule unlocked, every
\* response built after the clock has reached it reports it unlocked, the
\* clock never goes back and no request changes a stored unlock date.
C5_UnlockFlipsOnce ==
  /\ pre.now <= now
  /\ \A id \in DOMAIN store \cap DOMAIN pre.store :
       store[id].unlock_date = pre.store[id].unlock_date
  /\ \A d \in Dicts(resp) :
       /\ now < store[d.id].unlock_date => d.is_unlocked = FALSE
       /\ pre.now >= store[d.id].unlock_date => d.is_unlocked = TRUE

\* C5 witness: a capsule is fetched at the very instant of its unlock date
\* and reported unlocked.
C5_Witness ==
  /\ resp.op = "Get"
  /\ resp.status = 200
  /\ pre.now = store[resp.id].unlock_date
  /\ resp.body.is_unlocked = TRUE

\* C6: a Create whose unlock date parses and is not after the current instant
\* is answered 400 and stores nothing.
C6_PastDateRejected ==
  (/\ resp.op = "Create"
   /\ resp.req.unlock_date # << >>
   /\ resp.req.unlock_date[1].kind = "iso"
   /\ resp.req.unlock_date[1].t <= pre.now) =>
    /\ resp.status = 400
    /\ store = pre.store

\* C6 witness: a complete body whose unlock date is the current instant itself
\* is refused for its date.
C6_Witness ==
  /\ resp.op = "Create"
  /\ resp.req.unlock_date = <<IsoDate(pre.now)>>
  /\ pre.now = now
  /\ resp.status = 400
  /\ resp.body.error = <<"Unlock date must be in the future", "">>

C7_Fields == <<"title", "content", "creator_name", "unlock_date">>

\* the i-th required field is absent from the body, or empty
C7_Missing(data, i) ==
  \/ data[C7_Fields[i]] = << >>
  \/ IF C7_Fields[i] = "unlock_date"
     THEN data[C7_Fields[i]][1].kind = "empty"
     ELSE Len(data[C7_Fields[i]][1]) = 0

\* the i-th required field is the first one missing
C7_First(data, i) == C7_Missing(data, i) /\ \A j \in 1..(i - 1) : ~C7_Missing(data, j)

\* the body is an object with no key at all
C7_EmptyObject(data) == \A f \in DOMAIN data : data[f] = << >>

\* C7: a Create with a required field absent or empty is answered 400, before
\* the date is parsed, with a message naming the first missing field.
C7_MissingFieldNamed ==
  resp.op = "Create" =>
    \A i \in 1..4 :
      C7_First(resp.req, i) =>
        /\ resp.status = 400
        /\ resp.body.error = <<"Missing required field", C7_Fields[i]>>

\* C7 amended: as C7, except that the body with no key at all is answered 400
\* with the message "No data provided"; in both cases nothing is stored.
C7_MissingFieldNamedUnlessEmpty ==
  resp.op = "Create" =>
    \A i \in 1..4 :
      C7_First(resp.req, i) =>
        /\ resp.status = 400
        /\ store = pre.store
        /\ resp.body.error =
             IF C7_EmptyObject(resp.req)
             THEN <<"No data provided", "">>
             ELSE <<"Missing required field", C7_Fields[i]>>

\* C7 witness: content is missing, the fields after it are there and the date
\* is one that does not parse; the answer names content.
C7_Witness ==
  /\ resp.op = "Create"
  /\ resp.req.title # << >>
  /\ resp.req.content = << >>
  /\ resp.req.unlock_date = <<GarbageDate>>
  /\ resp.body.error = <<"Missing required field", "content">>

\* C8: Get of a stored private capsule is answered 403 with an error body and
\* no capsule, locked or not; Get of an identifier that is not stored is
\* answered 404.
C8_PrivateForbidden ==
  resp.op = "Get" =>
    IF resp.id \notin DOMAIN pre.store
    THEN resp.status = 404 /\ DOMAIN resp.body = {"error"}
    ELSE ~pre.store[resp.id].is_public =>
           resp.status = 403 /\ DOMAIN resp.body = {"error"}

\* C8 witness: a private capsule whose unlock date has passed is refused.
C8_Witness ==
  /\ resp.op = "Get"
  /\ resp.status = 403
  /\ pre.now >= pre.store[resp.id].unlock_date

\* C9: a successful Get carries content exactly when its is_unlocked key is
\* true, also when the unlock date passes between the handler's clock reads.
C9_GetContentIffUnlocked ==
  (resp.op = "Get" /\ resp.status = 200) =>
    (Shows(resp.body, "content") <=> resp.body.is_unlocked = TRUE)

\* C10: a deleted capsule is gone for good: it is not in the table, every later
\* Get, Delete and UpdatePosition of its identifier is answered 404, and no
\* Create gives its identifier to a new capsule.
C10_DeletedStaysGone ==
  /\ deleted \cap DOMAIN store = {}
  /\ (resp.op \in {"Get", "Delete", "UpdatePosition"} /\ resp.id \in pre.deleted) =>
       resp.status = 404
  /\ (resp.op = "Create" /\ resp.status = 201) =>
       resp.id \notin pre.deleted \cup DOMAIN pre.store

\* C10 witness: after a Delete and a further Create, the deleted identifier is
\* looked up again and not found.
C10_Witness ==
  /\ resp.op \in {"Get", "Delete", "UpdatePosition"}
  /\ resp.id \in pre.deleted
  /\ resp.status = 404
  /\ \E id \in DOMAIN store : id > resp.id

\* the range the claim gives each fragment field (the scale in tenths)
C11_Range ==
  [fragment_x |-> <<0, 100>>, fragment_y |-> <<0, 100>>,
   fragment_rotation |-> <<-30, 30>>, fragment_scale |-> <<5, 15>>]

\* the value of the range <<lo, hi>> nearest to v
C11_Nearest(range, v) ==
  IF v < range[1] THEN range[1] ELSE IF v > range[2] THEN range[2] ELSE v

\* C11: a successful UpdatePosition stores and returns, for each fragment field
\* in the body, the input itself when it is inside the field's range and the
\* nearest bound of the range when it is outside.
C11_Clamped ==
  (resp.op = "UpdatePosition" /\ resp.status = 200) =>
    \A f \in DOMAIN C11_Range :
      resp.req[f] # << >> =>
        /\ store[resp.id][f] = C11_Nearest(C11_Range[f], resp.req[f][1])
        /\ resp.body[f] = C11_Nearest(C11_Range[f], resp.req[f][1])

\* C11 witness: one body with a value above its range, one inside, one below
\* and one far outside; the stored row holds the bound, the input, the bound.
C11_Witness ==
  /\ resp.op = "UpdatePosition"
  /\ resp.status = 200
  /\ resp.req.fragment_x = <<101>> /\ store[resp.id].fragment_x = 100
  /\ resp.req.fragment_y = <<25>> /\ store[resp.id].fragment_y = 25
  /\ resp.req.fragment_rotation = <<-31>> /\ store[resp.id].fragment_rotation = -30
  /\ resp.req.fragment_scale = <<4>> /\ resp.body.fragment_scale = 5

C12_Fragment == {"fragment_x", "fragment_y", "fragment_rotation", "fragment_scale"}

\* C12: UpdatePosition leaves every other capsule as it was, adds and removes
\* no row, and on its own capsule changes nothing but the fragment fields the
\* body names (none for the empty body).
C12_OnlyNamedFields ==
  resp.op = "UpdatePosition" =>
    /\ DOMAIN store = DOMAIN pre.store
    /\ \A id \in DOMAIN store : id # resp.id => store[id] = pre.store[id]
    /\ resp.status # 200 => store = pre.store
    /\ resp.status = 200 =>
         \A f \in DOMAIN store[resp.id] :
           (f \notin C12_Fragment \/ resp.req[f] = << >>) =>
             store[resp.id][f] = pre.store[resp.id][f]

\* C12 witness: a body naming only fragment_y reaches a capsule whose
\* fragment_x an earlier update had set, next to another capsule.
C12_Witness ==
  /\ resp.op = "UpdatePosition"
  /\ resp.status = 200
  /\ resp.req.fragment_x = << >> /\ resp.req.fragment_y = <<25>>
  /\ pre.store[resp.id].fragment_x = 100
  /\ store[resp.id].fragment_x = 100
  /\ store[resp.id].fragment_y # pre.store[resp.id].fragment_y
  /\ \E id \in DOMAIN store : id # resp.id

C13_Fixed ==
  {"id", "title", "content", "content_type", "creator_name", "creator_email",
   "tags", "created_at", "unlock_date", "is_public"}

\* C13: from one request to the next a capsule that stays stored keeps its id,
\* title, content, content type, creator name and email, tags, creation and
\* unlock dates and visibility; a row changes only by an UpdatePosition of its
\* own identifier.
C13_OnlyFragmentsChange ==
  \A id \in DOMAIN store \cap DOMAIN pre.store :
    /\ \A f \in C13_Fixed : store[id][f] = pre.store[id][f]
    /\ store[id].id = id
    /\ store[id] # pre.store[id] => (resp.op = "UpdatePosition" /\ resp.id = id)

\* C13 witness: an UpdatePosition has moved a private capsule.
C13_Witness ==
  /\ resp.op = "UpdatePosition"
  /\ resp.status = 200
  /\ store[resp.id] # pre.store[resp.id]
  /\ store[resp.id].is_public = FALSE

\* the public capsules of db a List request with the filters of args selects
C14_Matching(db, args) ==
  {id \in DOMAIN db :
     /\ db[id].is_public = TRUE
     /\ (args.tag # << >> /\ args.tag[1] # << >>) => Contains(db[id].tags, args.tag[1])
     /\ (args.search # << >> /\ args.search[1] # << >>) =>
          \/ Contains(LowerText(db[id].title), LowerText(args.search[1]))
          \/ Contains(LowerText(db[id].content), LowerText(args.search[1]))
     /\ args.content_type # << >> => db[id].content_type = args.content_type[1]}

\* the row id can stand at the position n of `rows` sorted on key, descending
\* or ascending: fewer than n rows must come before it, and it and the rows
\* that may come before it are at least n
C14_CanStandAt(db, rows, id, n, key, descending) ==
  LET before == {o \in rows : IF descending THEN db[o][key] > db[id][key]
                                            ELSE db[o][key] < db[id][key]}
      ties == {o \in rows : db[o][key] = db[id][key]}
  IN /\ id \in rows
     /\ Cardinality(before) < n
     /\ n <= Cardinality(before \cup ties)

C15_AtMostHundred ==
  resp.op = "List" =>
    IF resp.req.limit = << >>
    THEN Len(resp.body.capsules) <= 50
    ELSE Len(resp.body.capsules) <= 100 /\ resp.body.limit <= 100

C18_LockedListReportsLocked ==
  resp.op = "ListLocked" =>
    \A i \in DOMAIN resp.body.capsules :
      /\ resp.body.capsules[i].is_unlocked = FALSE
      /\ "content" \notin DOMAIN resp.body.capsules[i]

C20_Pieces(s) ==
  {SubSeq(s, x[1], x[2]) :
     x \in {y \in (1..(Len(s) + 1)) \X (0..Len(s)) :
              /\ y[2] >= y[1] - 1
              /\ y[1] = 1 \/ s[y[1] - 1] = ","
              /\ y[2] = Len(s) \/ s[y[2] + 1] = ","
              /\ \A k \in y[1]..y[2] : s[k] # ","}}

\* the piece p without the spaces at its ends
C20_Trimmed(p) ==
  LET inked == {k \in 1..Len(p) : p[k] # " "}
  IN IF inked = {} THEN << >>
     ELSE SubSeq(p, CHOOSE k \in inked : \A o \in inked : k <= o,
                    CHOOSE k \in inked : \A o \in inked : k >= o)

\* the tags of the public capsules of db
C20_Tokens(db) ==
  UNION {{C20_Trimmed(p) : p \in C20_Pieces(db[id].tags)} :
           id \in {i \in DOMAIN db : db[i].is_public = TRUE}} \ {<< >>}

\* s comes before t in the order of a dictionary
C20_Less(s, t) ==
  LET differ == {k \in 1..Len(s) : k <= Len(t) /\ s[k] # t[k]}
  IN IF differ = {}
     THEN Len(s) < Len(t)
     ELSE LET k == CHOOSE d \in differ : \A o \in differ : d <= o
          IN ord(s[k]) < ord(t[k])

\* C16: a private capsule is in no List, ListUnlocked or ListLocked response,
\* every tag of a ListTags response is a tag of a public capsule, and the
\* three counters of Stats count public capsules only.
C16_PrivateExcluded ==
  /\ resp.op \in {"List", "ListUnlocked", "ListLocked"} =>
       \A i \in DOMAIN resp.body.capsules :
         /\ resp.body.capsules[i].id \in DOMAIN store
         /\ store[resp.body.capsules[i].id].is_public = TRUE
  /\ resp.op = "List" =>
       resp.body.total <= Cardinality({id \in DOMAIN store : store[id].is_public = TRUE})
  /\ resp.op = "ListTags" =>
       \A i \in DOMAIN resp.body.tags : resp.body.tags[i] \in C20_Tokens(store)
  /\ resp.op = "Stats" =>
       \E t \in pre.now..now :
         LET public == {id \in DOMAIN store : store[id].is_public = TRUE}
         IN /\ resp.body.total = Cardinality(public)
            /\ resp.body.unlocked =
                 Cardinality({id \in public : store[id].unlock_date <= t})
            /\ resp.body.locked =
                 Cardinality({id \in public : store[id].unlock_date > t})

\* C16 witness: the tags are listed of a table where a private capsule has a
\* tag no public capsule has, next to a public capsule with tags.
C16_Witness ==
  /\ resp.op = "ListTags"
  /\ resp.body.tags # << >>
  /\ \E id \in DOMAIN store :
       /\ store[id].is_public = FALSE
       /\ \E p \in C20_Pieces(store[id].tags) :
            /\ C20_Trimmed(p) # << >>
            /\ \A i \in DOMAIN resp.body.tags : resp.body.tags[i] # C20_Trimmed(p)

\* C20: a ListTags response holds exactly the tags of the public capsules (the
\* pieces between the commas of their tags fields, without the spaces at their
\* ends, the empty ones left out), each once, in ascending order.
C20_TagsListed ==
  resp.op = "ListTags" =>
    LET tags == resp.body.tags
    IN /\ {tags[i] : i \in DOMAIN tags} = C20_Tokens(store)
       /\ \A i, j \in DOMAIN tags : i < j => C20_Less(tags[i], tags[j])

\* C20 witness: tags with spaces around them, empty pieces, a capital and a
\* tag two public capsules share come out as B, a, ab, b.
C20_Witness ==
  /\ resp.op = "ListTags"
  /\ resp.body.tags = << <<"B">>, <<"a">>, <<"a", "b">>, <<"b">> >>
  /\ \E id \in DOMAIN store : store[id].is_public = FALSE /\ store[id].tags # << >>

\* C21: a Stats request served alone reports, for one instant of its service,
\* the number of public capsules as total, those of them whose unlock date is
\* not after that instant as unlocked and the others as locked, so that total
\* is unlocked plus locked.
C21_StatsAtOneInstant ==
  resp.op = "Stats" =>
    /\ resp.body.total = resp.body.unlocked + resp.body.locked
    /\ \E t \in pre.now..now :
         /\ resp.body.total =
              Cardinality({id \in DOMAIN pre.store : pre.store[id].is_public = TRUE})
         /\ resp.body.unlocked =
              Cardinality({id \in DOMAIN pre.store :
                             pre.store[id].is_public = TRUE
                             /\ ~(pre.store[id].unlock_date > t)})
         /\ resp.body.locked =
              Cardinality({id \in DOMAIN pre.store :
                             pre.store[id].is_public = TRUE
                             /\ pre.store[id].unlock_date > t})

\* C21 witness: one public capsule unlocked, one public capsule locked and a
\* private capsule give total 2, unlocked 1, locked 1.
C21_Witness ==
  /\ resp.op = "Stats"
  /\ resp.body = [total |-> 2, unlocked |-> 1, locked |-> 1]
  /\ \E id \in DOMAIN store : store[id].is_public = FALSE

\* C22: the identifier of a stored capsule is its key in the table, so no two
\* stored capsules share one, and a Create gives its capsule an identifier that
\* no capsule stored or deleted before has had.
C22_IdsUnique ==
  /\ \A id \in DOMAIN store : store[id].id = id
  /\ (resp.op = "Create" /\ resp.status = 201) =>
       /\ resp.body.capsule.id = resp.id
       /\ resp.id \in DOMAIN store
       /\ resp.id \notin DOMAIN pre.store
       /\ resp.id \notin pre.deleted

\* C22 witness: a capsule is created after another has been deleted.
C22_Witness ==
  /\ resp.op = "Create"
  /\ resp.status = 201
  /\ pre.deleted # {}
  /\ resp.id \in DOMAIN store

\* C23: time_until_unlock returns None exactly when the capsule is unlocked at
\* the instant of the call and otherwise the duration from that instant to the
\* unlock date, which is strictly positive; a time_remaining is that of a
\* strictly positive number d of seconds to the unlock date, with days
\* d div 86400, hours (d mod 86400) div 3600 within 0..23 and minutes
\* (d mod 3600) div 60 within 0..59, none of them negative.
C23_Remaining ==
  /\ resp.op = "time_until_unlock" =>
       \E t \in pre.now..now :
         LET d == pre.store[resp.id].unlock_date - t
         IN /\ resp.body = << >> <=> d <= 0
            /\ resp.body # << >> => resp.body = <<d>> /\ d > 0
  /\ \A r \in Dicts(resp) :
       Shows(r, "time_remaining") =>
         \E t \in pre.now..now :
           LET d == pre.store[r.id].unlock_date - t
           IN /\ d > 0
              /\ r.time_remaining.days = d \div 86400
              /\ r.time_remaining.hours = (d % 86400) \div 3600
              /\ r.time_remaining.minutes = (d % 3600) \div 60
              /\ r.time_remaining.days >= 0
              /\ r.time_remaining.hours \in 0..23
              /\ r.time_remaining.minutes \in 0..59

\* C24: the tags of every projection of a capsule are the pieces of its stored
\* tags between the commas, each without the spaces at its ends, and the empty
\* list when the capsule stores no tags.
C24_TagsTrimmed ==
  \A d \in Dicts(resp) :
    d.id \in DOMAIN pre.store =>
      LET tags == pre.store[d.id].tags
      IN IF tags = << >>
         THEN d.tags = << >>
         ELSE /\ \A i \in DOMAIN d.tags : d.tags[i] = C20_Trimmed(d.tags[i])
              /\ {d.tags[i] : i \in DOMAIN d.tags}
                   = {C20_Trimmed(p) : p \in C20_Pieces(tags)}

\* C25: a request answered with 400, 403 or 404 leaves the table of capsules as
\* it was before the request.
C25_ErrorsChangeNothing ==
  resp.status \in {400, 403, 404} =>
    /\ store = pre.store
    /\ deleted = pre.deleted

\* C25 witness: each of the three answers is given over a table that holds a
\* capsule (here the 400 of a Create whose unlock date is not in the future).
C25_Witness ==
  /\ resp.op = "Create"
  /\ resp.status = 400
  /\ resp.body = Error("Unlock date must be in the future", "")
  /\ DOMAIN store # {}
  /\ store = pre.store

\* C26: a Create answered 201 adds exactly one capsule to the table and leaves
\* the others as they were; the new capsule has content type "text" and is
\* public when the request gives no content_type and no is_public; the response
\* does not carry the content, whether the capsule is locked or unlocked when
\* the response is built.
C26_CreateAddsOne ==
  (resp.op = "Create" /\ resp.status = 201) =>
    /\ resp.id \notin DOMAIN pre.store
    /\ DOMAIN store = DOMAIN pre.store \cup {resp.id}
    /\ \A id \in DOMAIN pre.store : store[id] = pre.store[id]
    /\ ~Has(resp.req, "content_type") => store[resp.id].content_type = "text"
    /\ ~Has(resp.req, "is_public") => store[resp.id].is_public = TRUE
    /\ ~Shows(resp.body.capsule, "content")

\* C26 witness: a Create without content_type and is_public, next to a stored
\* capsule, whose response reports the new capsule unlocked already.
C26_Witness ==
  /\ resp.op = "Create"
  /\ resp.status = 201
  /\ ~Has(resp.req, "content_type")
  /\ ~Has(resp.req, "is_public")
  /\ DOMAIN pre.store # {}
  /\ resp.body.capsule.is_unlocked = TRUE
  /\ ~Shows(resp.body.capsule, "content")

\* C27: no response carries the content of a private capsule: a Get of one is
\* answered 403, the lists leave it out, and an UpdatePosition of one, whatever
\* its body, does not return its content even when it is unlocked.
C27_PrivateContentHidden ==
  /\ (resp.op = "Get" /\ resp.id \in DOMAIN pre.store
        /\ pre.store[resp.id].is_public # TRUE) => resp.status = 403
  /\ \A d \in Dicts(resp) :
       (d.id \in DOMAIN pre.store /\ pre.store[d.id].is_public # TRUE) =>
         /\ resp.op \notin {"List", "ListUnlocked", "ListLocked"}
         /\ ~Shows(d, "content")

\* C28: every stored capsule has fragment_x and fragment_y within 0..100, its
\* rotation within -30..30 and its scale within 0.5..1.5 (5..15 tenths); a
\* Create stores a capsule with x and y within 10..90, rotation within -15..15
\* and scale within 0.8..1.2; no sequence of UpdatePosition requests takes a
\* capsule out of the wider ranges.
C28_FragmentRanges ==
  /\ \A id \in DOMAIN store :
       /\ store[id].fragment_x >= 0 /\ store[id].fragment_x <= 100
       /\ store[id].fragment_y >= 0 /\ store[id].fragment_y <= 100
       /\ store[id].fragment_rotation >= -30 /\ store[id].fragment_rotation <= 30
       /\ store[id].fragment_scale >= 5 /\ store[id].fragment_scale <= 15
  /\ (resp.op = "Create" /\ resp.status = 201) =>
       /\ store[resp.id].fragment_x >= 10 /\ store[resp.id].fragment_x <= 90
       /\ store[resp.id].fragment_y >= 10 /\ store[resp.id].fragment_y <= 90
       /\ store[resp.id].fragment_rotation >= -15
       /\ store[resp.id].fragment_rotation <= 15
       /\ store[resp.id].fragment_scale >= 8 /\ store[resp.id].fragment_scale <= 12

\* C28 witness: an UpdatePosition whose body asks for values outside the ranges
\* has put the capsule on the bounds 100, 0, 30 and 0.5, next to a capsule that
\* still has the values Create gave it.
C28_Witness ==
  /\ resp.op = "UpdatePosition"
  /\ resp.status = 200
  /\ resp.req.fragment_x = <<150>>
  /\ store[resp.id].fragment_x = 100
  /\ store[resp.id].fragment_y = 0
  /\ store[resp.id].fragment_rotation = 30
  /\ store[resp.id].fragment_scale = 5
  /\ \E id \in DOMAIN store : store[id].fragment_x = 10

\* C29: with a clock that keeps advancing, every stored public capsule is
\* deleted or reaches its unlock date; once the clock has reached the unlock
\* date of a public capsule, every Get of it returns its content; and a step in
\* which only time passes leaves the table of capsules as it is.
C29_EventuallyUnlocked ==
  /\ \A id \in Ids :
       [](id \in DOMAIN store
            => <>(id \notin DOMAIN store \/ now >= store[id].unlock_date))
  /\ []((resp.op = "Get" /\ resp.id \in DOMAIN pre.store
           /\ pre.store[resp.id].is_public = TRUE
           /\ pre.now >= pre.store[resp.id].unlock_date)
          => (resp.status = 200 /\ Shows(resp.body, "content")
                /\ resp.body.content = pre.store[resp.id].content))
  /\ [][(resp' = resp /\ now' # now) => (store' = store /\ deleted' = deleted)]_vars

\* C29 witness: a Get returns the content of a capsule that was stored locked
\* and whose unlock date the clock has reached since.
C29_Witness ==
  /\ resp.op = "Get"
  /\ resp.status = 200
  /\ Shows(resp.body, "content")
  /\ pre.store[resp.id].created_at < pre.store[resp.id].unlock_date
  /\ pre.now >= pre.store[resp.id].unlock_date

\* C30: the counts of a Stats response satisfy total = unlocked + locked, also
\* when other clients' Create and Delete requests commit between its queries.
C30_StatsAddUp ==
  (resp.op = "Stats" /\ resp.status = 200) =>
    resp.body.total = resp.body.unlocked + resp.body.locked

====
